---- MODULE Spec2Model ----
(***************************************************************************)
(* Model of the dream analysis pipeline of dream.py: analyze_dream with    *)
(* its helpers quick_heuristics, classify_dream, validate_ai_output, and   *)
(* render_analysis_text as called from handle_free_text.                   *)
(*                                                                         *)
(* Strings are sequences of chunks.  A chunk [w, n] is the first n         *)
(* characters of the word w; a whole word has n = CharLen(w).  Keyword     *)
(* search ("k in t") looks for a whole chunk, slicing cuts chunks, and     *)
(* len() sums the chunk lengths.                                           *)
(***************************************************************************)
EXTENDS Integers, Sequences, FiniteSets, TLC

\* ------------------------------------------------------------------ bounds
\* longest LLM interpretation reply, in lines
MaxReplyLines == 2
\* longest reply handed to the marker split on its own, in lines
MaxSplitLines == 6
\* number of days the notification clock runs
MaxDays == 2
\* most messages notify_loop sends in a run of the model
MaxSent == 3
\* longest dream text of the classifier specification, in words
MaxTextWords == 4
\* most emotions in a structure handed to the renderer
MaxEmotions == 2
\* most symbols in a structure handed to the classifier
MaxSymbols == 2
MaxValidateWords == 3
MaxMergeLines == 4
\* longest option list of a caller of choose_nonrepeat
MaxOptions == 3

\* ------------------------------------------------------- program constants
\* classify_dream: "very short" limit for the social-action rule
ShortSocialLen == 220
\* classify_dream: "short" limit for the symbol-count rule
ShortPlainLen == 300
\* classify_dream: most symbols of a plain dream
PlainSymbolMax == 1
\* validate_ai_output: minimum length of the psychological section
MinPsychLen == 100
\* validate_ai_output: minimum number of referenced details
MinDetailRefs == 2
\* validate_ai_output: length of the summary prefix that must not be echoed
EchoPrefixLen == 24
\* validate_ai_output: length above which a meaning indicator is required
MeaningMinLen == 50
\* analyze_dream: summary length of the first backfill
SummaryLen == 200
\* analyze_dream: summary length of the second backfill
SummaryCtxLen == 300
\* analyze_dream: a summary shorter than this is replaced by the text
SummaryMinLen == 50
\* analyze_dream: length of _original_text
OriginalTextLen == 500
\* analyze_dream, symbolic fallback: acceptance lengths of the extra replies
RetryMinLen == 100
FinalMinLen == 150
AdviceMinLen == 30
\* analyze_dream, symbolic fallback: details taken per field / in total
DetailsPerField == 3
DetailsTotal == 5
\* notify_loop: the local hours of the morning and the evening message
MorningHour == 8
EveningHour == 20
DefaultDailyHour == 9
\* choose_nonrepeat: the default of k
DefaultK == 5
\* an hour between the two, at which notify_loop sends nothing
NoonHour == MorningHour + 4

\* ------------------------------------------------------------------ words
\* Number of characters of each word of the vocabulary.
CharLen(w) ==
  CASE w \in {" ", "\n", ":"} -> 1
    [] w \in {"PSYCH", "psych"} -> 5
    [] w \in {"ESOTERIC", "esoteric"} -> 8
    [] w \in {"ADVICE", "advice"} -> 6
    [] w = "sea" -> 3
    [] w \in {"fall", "city", "fear", "anna", "Anna", "nice", "late", "home", "calm"} -> 4
    [] w = "means" -> 5
    [] w \in {"reflects", "otrazhaet"} -> 8
    [] w = "svyazan" -> 6
    [] w = "vidobrazhaye" -> 10
    [] w \in {"pada", "okean"} -> 5
    [] w = "walked" -> 6
    [] w = "anxiety" -> 7
    [] w = "held hands" -> 10
    [] w = "transition" -> 10
    [] w = "about inner movement" -> 20
    [] w = "the door opens within" -> 21
    [] w \in {"filler100", "recap100"} -> 100
    [] w = "filler20" -> 20
    [] w = ", " -> 2
    [] w = ": " -> 2
    [] w = "; " -> 2
    [] w = ". " -> 2
    [] OTHER -> 12

\* str.lower() of one word
LowerTok(w) ==
  CASE w = "PSYCH" -> "psych"
    [] w = "ESOTERIC" -> "esoteric"
    [] w = "ADVICE" -> "advice"
    [] w = "Anna" -> "anna"
    [] OTHER -> w

\* str.upper() of one word
UpperTok(w) ==
  CASE w = "psych" -> "PSYCH"
    [] w = "esoteric" -> "ESOTERIC"
    [] w = "advice" -> "ADVICE"
    [] w = "anna" -> "ANNA"
    [] w = "Anna" -> "ANNA"
    [] OTHER -> w

\* ---------------------------------------------------------------- strings
Chunk(w) == [w |-> w, n |-> CharLen(w)]

\* the string made of the words ws
Str(ws) == [i \in 1..Len(ws) |-> Chunk(ws[i])]

RECURSIVE StrLen(_)
\* len(s)
StrLen(s) == IF s = <<>> THEN 0 ELSE Head(s).n + StrLen(Tail(s))

IsWs(c) == c.w \in {" ", "\n"}

RECURSIVE LStrip(_)
LStrip(s) == IF s # <<>> /\ IsWs(Head(s)) THEN LStrip(Tail(s)) ELSE s

RECURSIVE RStrip(_)
RStrip(s) ==
  IF s # <<>> /\ IsWs(s[Len(s)]) THEN RStrip(SubSeq(s, 1, Len(s) - 1)) ELSE s

\* s.strip()
Strip(s) == RStrip(LStrip(s))

\* s.lower()
Lower(s) == [i \in 1..Len(s) |-> [w |-> LowerTok(s[i].w), n |-> s[i].n]]

\* k in s, for a one-word keyword k
Contains(s, k) == \E i \in 1..Len(s) : s[i].w = k /\ s[i].n = CharLen(k)

RECURSIVE Take(_, _)
\* s[:n]
Take(s, n) ==
  IF s = <<>> \/ n <= 0 THEN <<>>
  ELSE IF Head(s).n <= n THEN <<Head(s)>> \o Take(Tail(s), n - Head(s).n)
  ELSE <<[w |-> Head(s).w, n |-> n]>>

\* needle in hay, for a needle that is a prefix of some string: all its
\* chunks but the last must be found whole, the last may be cut
InStr(needle, hay) ==
  \/ needle = <<>>
  \/ \E p \in 0..(Len(hay) - Len(needle)) :
       \A i \in 1..Len(needle) :
          /\ hay[p + i].w = needle[i].w
          /\ IF i < Len(needle) THEN hay[p + i].n = needle[i].n
                                ELSE hay[p + i].n >= needle[i].n

RECURSIVE Join(_, _)
\* sep.join(ss)
Join(ss, sep) ==
  IF ss = <<>> THEN <<>>
  ELSE IF Len(ss) = 1 THEN ss[1]
  ELSE ss[1] \o sep \o Join(Tail(ss), sep)

RECURSIVE SplitLines(_, _)
\* the lines of s; cur is the line being collected
SplitLines(s, cur) ==
  IF s = <<>> THEN <<cur>>
  ELSE IF Head(s).w = "\n" THEN <<cur>> \o SplitLines(Tail(s), <<>>)
  ELSE SplitLines(Tail(s), Append(cur, Head(s)))

RECURSIVE SeqsUpTo(_, _)
\* all sequences over S of length at most n
SeqsUpTo(S, n) ==
  IF n = 0 THEN {<<>>}
  ELSE LET shorter == SeqsUpTo(S, n - 1)
       IN shorter \cup {Append(q, x) : q \in shorter, x \in S}

\* ------------------------------------------------------------ JSON values
\* A field of a JSON object: absent, null, a string (s) or a list (l).
\* A list item is a string ("str") or an object ("obj") of which val is the
\* name (characters) or the label (emotions).
Absent == [t |-> "absent", s |-> <<>>, l |-> <<>>]
Null == [t |-> "null", s |-> <<>>, l |-> <<>>]
StrV(s) == [t |-> "str", s |-> s, l |-> <<>>]
ListV(l) == [t |-> "list", s |-> <<>>, l |-> l]
StrItem(w) == [it |-> "str", val |-> Str(<<w>>)]
ObjItem(w) == [it |-> "obj", val |-> Str(<<w>>)]

\* js.get(k) or "" / js.get(k) or []
GetStr(js, k) == IF js[k].t = "str" THEN js[k].s ELSE <<>>
GetList(js, k) == IF js[k].t = "list" THEN js[k].l ELSE <<>>

\* a JSON object with no key
EmptyObject ==
  [kind |-> "obj", location |-> Absent, characters |-> Absent,
   actions |-> Absent, symbols |-> Absent, emotions |-> Absent,
   themes |-> Absent, archetypes |-> Absent, summary |-> Absent,
   original_text |-> Absent, depth |-> "none"]

\* a JSON value that is not an object: kind is "null", "list", "num", "str"
NonObject(kind) == [EmptyObject EXCEPT !.kind = kind]

\* the structure analyze_dream uses when the reply does not parse
FallbackStructure ==
  [EmptyObject EXCEPT !.location = Null, !.characters = ListV(<<>>),
     !.actions = ListV(<<>>), !.symbols = ListV(<<>>),
     !.emotions = ListV(<<>>), !.themes = ListV(<<>>),
     !.archetypes = ListV(<<>>), !.summary = StrV(<<>>)]

\* a reply that follows the schema of build_struct_prompt
FullObject ==
  [EmptyObject EXCEPT !.location = StrV(Str(<<"home">>)),
     !.characters = ListV(<<ObjItem("Anna")>>),
     !.actions = ListV(<<StrItem("walked")>>),
     !.symbols = ListV(<<StrItem("sea"), StrItem("city")>>),
     !.emotions = ListV(<<ObjItem("fear")>>),
     !.themes = ListV(<<StrItem("transition")>>),
     !.archetypes = ListV(<<>>),
     !.summary = StrV(Str(<<"recap100">>))]

\* an object whose emotions are plain strings instead of {label, score}
EmotionStringsObject == [EmptyObject EXCEPT !.emotions = ListV(<<StrItem("fear")>>)]

\* a reply that follows the schema, with a short summary and no symbol
ShortObject ==
  [EmptyObject EXCEPT !.location = StrV(Str(<<"home">>)),
     !.characters = ListV(<<ObjItem("Anna")>>),
     !.actions = ListV(<<StrItem("walked")>>),
     !.symbols = ListV(<<>>),
     !.emotions = ListV(<<ObjItem("calm")>>),
     !.themes = ListV(<<StrItem("transition")>>),
     !.archetypes = ListV(<<>>),
     !.summary = StrV(Str(<<"nice", " ", "walked">>))]

\* an object whose summary is white space only
BlankSummaryObject == [EmptyObject EXCEPT !.summary = StrV(Str(<<" ", "\n">>))]

\* the documents that follow the schema of build_struct_prompt
SchemaDocs == {"{full}", "{short}"}

\* the JSON documents a reply can hold, by the word that stands for them
ObjectDocs == {"{}", "{full}", "{emotions:[str]}", "{short}", "{summary:' '}"}
JsonDocs == ObjectDocs \cup {"null", "[1]", "5", "'str'"}

\* json.loads of one document
JsonOf(w) ==
  CASE w = "{}" -> EmptyObject
    [] w = "{full}" -> FullObject
    [] w = "{emotions:[str]}" -> EmotionStringsObject
    [] w = "{short}" -> ShortObject
    [] w = "{summary:' '}" -> BlankSummaryObject
    [] w = "null" -> NonObject("null")
    [] w = "[1]" -> NonObject("list")
    [] w = "5" -> NonObject("num")
    [] w = "'str'" -> NonObject("str")

RECURSIVE NonWs(_)
\* the chunks of s that are not white space
NonWs(s) ==
  IF s = <<>> THEN <<>>
  ELSE (IF IsWs(Head(s)) THEN <<>> ELSE <<Head(s)>>) \o NonWs(Tail(s))

\* json.loads(s) succeeds: s is one JSON document, white space around it
JsonLoadsOk(s) == Len(NonWs(s)) = 1 /\ NonWs(s)[1].w \in JsonDocs
JsonLoads(s) == JsonOf(NonWs(s)[1].w)

\* re.search(r"\{[\s\S]*\}$", s): from the first "{" to the end of s, when s
\* ends with "}"; <<>> stands for no match
BraceMatch(s) ==
  IF s # <<>> /\ s[Len(s)].w \in ObjectDocs
  THEN LET first == CHOOSE i \in 1..Len(s) :
                      /\ s[i].w \in ObjectDocs
                      /\ \A j \in 1..(i - 1) : s[j].w \notin ObjectDocs
       IN SubSeq(s, first, Len(s))
  ELSE <<>>

\* analyze_dream, the try block around json.loads
ParseStruct(struct_raw) ==
  LET m == BraceMatch(Strip(struct_raw))
      src == IF m # <<>> THEN m ELSE struct_raw
  IN IF JsonLoadsOk(src) THEN JsonLoads(src) ELSE FallbackStructure

\* ------------------------------------------------------- quick_heuristics
\* any(k in s for k in K)
AnyIn(s, K) == \E k \in K : Contains(s, k)

HeuristicSymbols(text) ==
  LET t == Lower(text)
  IN IF Contains(t, "city") THEN <<StrItem("city")>> ELSE <<>>

HeuristicThemes(text) ==
  LET t == Lower(text)
  IN (IF AnyIn(t, {"key", "transition", "transform"})
        THEN <<StrItem("transition")>> ELSE <<>>)
     \o (IF AnyIn(t, {"water"}) THEN <<StrItem("flow/emotion")>> ELSE <<>>)
     \o (IF AnyIn(t, {"time"}) THEN <<StrItem("timelessness")>> ELSE <<>>)

HeuristicEmotions(text) ==
  LET t == Lower(text)
  IN (IF AnyIn(t, {"fear", "anx"}) THEN <<ObjItem("anxiety")>> ELSE <<>>)
     \o (IF AnyIn(t, {"calm", "gentle"}) THEN <<ObjItem("calm")>> ELSE <<>>)

\* --------------------------------------------------------- classify_dream
surreal_keys ==
  {"fog", "key", "stair", "clock", "transparent", "light", "echo",
   "archetype", "esoter", "fall", "forest", "mirror", "teeth"}

simple_actions == {"walked", "held hands"}

\* classify_dream with "<" for "<=" in the symbol count
classify_dream_strict(text, js) ==
  LET t == Lower(text)
  IN IF AnyIn(t, surreal_keys) THEN "symbolic"
     ELSE IF StrLen(t) < ShortSocialLen /\ AnyIn(t, simple_actions) THEN "domestic"
     ELSE IF Len(GetList(js, "symbols")) < PlainSymbolMax /\ StrLen(t) < ShortPlainLen
       THEN "domestic"
     ELSE "symbolic"

classify_dream(text, js) ==
  LET t == Lower(text)
  IN IF AnyIn(t, surreal_keys) THEN "symbolic"
     ELSE IF StrLen(t) < ShortSocialLen /\ AnyIn(t, simple_actions) THEN "domestic"
     ELSE IF Len(GetList(js, "symbols")) <= PlainSymbolMax /\ StrLen(t) < ShortPlainLen
       THEN "domestic"
     ELSE "symbolic"

\* ------------------------------------------------- section marker split
Markers == {"PSYCH", "ESOTERIC", "ADVICE"}

\* the marker a line consists of, "" for any other line:
\* (?im)^\s*(PSYCH|ESOTERIC|ADVICE)\s*:?\s*$
MarkerOf(line) ==
  LET body == NonWs(line)
  IN IF /\ Len(body) \in {1, 2}
        /\ UpperTok(body[1].w) \in Markers
        /\ body[1].n = CharLen(body[1].w)
        /\ Len(body) = 2 => body[2].w = ":"
     THEN UpperTok(body[1].w) ELSE ""

\* key is in the bucket built from the lines
InBucket(lines, key) == \E i \in 1..Len(lines) : MarkerOf(lines[i]) = key

\* bucket[key]: the text after the last line of that marker, up to the next
\* marker line, stripped
BucketVal(lines, key) ==
  LET last == CHOOSE i \in 1..Len(lines) :
                /\ MarkerOf(lines[i]) = key
                /\ \A j \in (i + 1)..Len(lines) : MarkerOf(lines[j]) # key
      stops == {j \in (last + 1)..Len(lines) : MarkerOf(lines[j]) # ""}
      stop == IF stops = {} THEN Len(lines) + 1
              ELSE CHOOSE j \in stops : \A k \in stops : j <= k
  IN Strip(Join(SubSeq(lines, last + 1, stop - 1), Str(<<"\n">>)))

\* bucket.get(key, default) after re.split of raw
BucketGet(raw, key, default) ==
  LET lines == SplitLines(raw, <<>>)
  IN IF InBucket(lines, key) THEN BucketVal(lines, key) ELSE default

\* analyze_dream, the split of the generator's reply: the three sections
SplitFirst(interp_raw) ==
  LET p == BucketGet(interp_raw, "PSYCH", <<>>)
      e == BucketGet(interp_raw, "ESOTERIC", <<>>)
      a == BucketGet(interp_raw, "ADVICE", <<>>)
  IN IF interp_raw = <<>> THEN [psych |-> <<>>, esoteric |-> <<>>, advice |-> <<>>]
     ELSE IF p = <<>> /\ e = <<>> /\ a = <<>>
       THEN [psych |-> Strip(interp_raw), esoteric |-> <<>>, advice |-> <<>>]
     ELSE [psych |-> p, esoteric |-> e, advice |-> a]

\* the merge with a section replaced only by a non-empty text
MergeRetryNonEmpty(retry_raw, cur) ==
  LET keep(v, default) == IF v # <<>> THEN v ELSE default
  IN IF retry_raw = <<>> THEN cur
     ELSE [psych |-> keep(BucketGet(retry_raw, "PSYCH", cur.psych), cur.psych),
           esoteric |-> keep(BucketGet(retry_raw, "ESOTERIC", cur.esoteric), cur.esoteric),
           advice |-> keep(BucketGet(retry_raw, "ADVICE", cur.advice), cur.advice)]

\* analyze_dream, the merge of a critique reply into the sections so far
MergeRetry(retry_raw, cur) ==
  IF retry_raw = <<>> THEN cur
  ELSE [psych |-> BucketGet(retry_raw, "PSYCH", cur.psych),
        esoteric |-> BucketGet(retry_raw, "ESOTERIC", cur.esoteric),
        advice |-> BucketGet(retry_raw, "ADVICE", cur.advice)]

\* ---------------------------------------------------- validate_ai_output
generic_patterns ==
  {"symbolic dream about inner movement and a sense of path",
   "inner movement and a sense of path", "about inner movement"}

forbidden == {"the door opens within"}

\* "otrazhaet", "svyazan", "vidobrazhaye" stand for the Russian and
\* Ukrainian indicators that the fallback texts contain
meaning_indicators ==
  {"means", "might mean", "reflects", "connected", "shows", "tells",
   "otrazhaet", "svyazan", "vidobrazhaye"}

RECURSIVE ItemVals(_, _)
\* the lower-cased non-empty values of the items of the given kind
ItemVals(items, kind) ==
  IF items = <<>> THEN {}
  ELSE (IF Head(items).it = kind /\ Head(items).val # <<>>
          THEN {Lower(Head(items).val)} ELSE {})
       \cup ItemVals(Tail(items), kind)

\* set(details)
Details(js) ==
  ItemVals(GetList(js, "symbols"), "str")
    \cup ItemVals(GetList(js, "actions"), "str")
    \cup ItemVals(GetList(js, "characters"), "obj")
    \cup ItemVals(GetList(js, "emotions"), "obj")
    \cup (IF GetStr(js, "location") # <<>> THEN {Lower(GetStr(js, "location"))} ELSE {})

Combined(psych, esoteric, advice) ==
  Lower(Join(<<psych, esoteric, advice>>, Str(<<" ">>)))

\* e.get("label") on an emotion that is not a dict raises AttributeError
EmotionsRaise(js) ==
  \E i \in 1..Len(GetList(js, "emotions")) : GetList(js, "emotions")[i].it # "obj"

\* The verdict of validate_ai_output: "ok", the rule that failed, or "raise".
validate_ai_output(text, js, psych, esoteric, advice) ==
  LET t == Lower(text)
      combined == Combined(psych, esoteric, advice)
      psych_lower == Strip(Lower(psych))
      ref == Cardinality({d \in Details(js) : InStr(d, combined)})
      summary == Strip(GetStr(js, "summary"))
  IN IF AnyIn(combined, generic_patterns) THEN "generic"
     ELSE IF StrLen(psych_lower) < MinPsychLen THEN "short"
     ELSE IF EmotionsRaise(js) THEN "raise"
     ELSE IF ref < MinDetailRefs THEN "details"
     ELSE IF \E f \in forbidden : Contains(combined, f) /\ ~Contains(t, f)
       THEN "forbidden"
     ELSE IF StrLen(summary) >= EchoPrefixLen
             /\ InStr(Take(Lower(summary), EchoPrefixLen), combined)
       THEN "echo"
     ELSE IF ~AnyIn(psych_lower, meaning_indicators)
             /\ StrLen(psych_lower) > MeaningMinLen
       THEN "meaning"
     ELSE "ok"

\* ------------------------------------------------ deterministic fallback
Langs == {"ru", "uk", "en"}

\* a literal phrase of the program, n characters long, that holds no keyword
Lit(w, n) == <<[w |-> w, n |-> n]>>

RECURSIVE ItemNames(_)
\* [c.get("name") for c in items if isinstance(c, dict) and c.get("name")]
ItemNames(items) ==
  IF items = <<>> THEN <<>>
  ELSE (IF Head(items).it = "obj" /\ Head(items).val # <<>>
          THEN <<Head(items).val>> ELSE <<>>)
       \o ItemNames(Tail(items))

RECURSIVE ItemTexts(_)
\* [str(x) for x in items if x], a dict item giving its name
ItemTexts(items) ==
  IF items = <<>> THEN <<>>
  ELSE (IF Head(items).val # <<>> THEN <<Head(items).val>> ELSE <<>>)
       \o ItemTexts(Tail(items))

RECURSIVE ItemStrs(_)
\* [str(x) for x in items]
ItemStrs(items) ==
  IF items = <<>> THEN <<>> ELSE <<Head(items).val>> \o ItemStrs(Tail(items))

FirstN(q, n) == SubSeq(q, 1, IF Len(q) < n THEN Len(q) ELSE n)

\* the hints of the domestic fallback; "kupil" stands for the Russian and
\* Ukrainian purchase words
DomesticHints(text, lang) ==
  LET s == Lower(text)
      pick(ru, uk, en) == IF lang = "ru" THEN ru ELSE IF lang = "uk" THEN uk ELSE en
  IN (IF AnyIn(s, {"teacher", "class"}) \/ AnyIn(s, {"late"})
        THEN <<Lit("hint:expectations", pick(73, 70, 81))>> ELSE <<>>)
     \o (IF AnyIn(s, {"coffee", "bar", "video"})
           THEN <<Lit("hint:lightness", pick(62, 61, 68))>> ELSE <<>>)
     \o (IF AnyIn(s, {"held hands", "hand in hand"})
           THEN <<Lit("hint:closeness", pick(51, 49, 55))>> ELSE <<>>)
     \o (IF AnyIn(s, {"kupil"})
           THEN <<Lit("hint:renewal", pick(65, 58, 56))>> ELSE <<>>)

\* analyze_dream, the psychological section of the domestic fallback
DomesticPsych(text, js, lang) ==
  LET names == Join(ItemNames(GetList(js, "characters")), Str(<<", ">>))
      hints == DomesticHints(text, lang)
      head == IF lang = "ru" THEN Lit("Short domestic dream", 20)
              ELSE IF lang = "uk" THEN Lit("Short domestic dream", 22)
              ELSE Lit("A brief domestic dream", 22)
      about == IF lang = "en" THEN Lit(" about ", 7) ELSE Lit(" pro ", 5)
      plain == IF lang = "ru" THEN Lit("about simple feelings", 35)
               ELSE IF lang = "uk" THEN Lit("about simple feelings", 38)
               ELSE Lit("about simple feelings", 35)
  IN head \o (IF names # <<>> THEN about \o names ELSE <<>>) \o Str(<<": ">>)
       \o (IF hints # <<>> THEN Join(hints, Str(<<"; ">>)) ELSE plain)

\* analyze_dream, random.choice of the domestic fallback's advice
DomesticAdvice(lang) ==
  IF lang = "ru" THEN {Lit("advice:comfort", 64), Lit("advice:name feeling", 65)}
  ELSE IF lang = "uk" THEN {Lit("advice:comfort", 53), Lit("advice:name feeling", 53)}
  ELSE {Lit("advice:comfort", 64), Lit("advice:name feeling", 57)}

\* analyze_dream, detail_str of the symbolic fallback
DetailStr(js) ==
  LET symbols == ItemStrs(FirstN(GetList(js, "symbols"), DetailsPerField))
      actions == ItemStrs(FirstN(GetList(js, "actions"), DetailsPerField))
      characters == ItemTexts(FirstN(GetList(js, "characters"), DetailsPerField))
      location == IF GetStr(js, "location") # <<>> THEN <<GetStr(js, "location")>> ELSE <<>>
      all_details == symbols \o actions \o characters \o location
  IN Join(FirstN(all_details, DetailsTotal), Str(<<", ">>))

\* analyze_dream, the last-resort psychological section of the symbolic
\* fallback; "pada" and "okean" stand for the Russian words it looks for
SymbolicLastResort(text, js, lang) ==
  LET detail_str == DetailStr(js)
      t == Lower(text)
  IN IF lang = "ru" THEN
       IF detail_str # <<>>
       THEN Lit("Symbolic dream about ", 22) \o detail_str
              \o Lit(". This dream holds messages. ", 75)
              \o (IF Contains(t, "pada") THEN Lit("Falling may symbolize loss of control. ", 65)
                  ELSE <<>>)
              \o (IF AnyIn(t, {"okean", "more"})
                  THEN Lit("The ocean is ", 12) \o Str(<<"svyazan">>)
                         \o Lit(" with emotions", 106)
                  ELSE <<>>)
       ELSE Lit("This dream ", 9) \o Str(<<"otrazhaet">>)
              \o Lit(" inner processes (stairs, falling, ocean)", 142)
     ELSE IF lang = "uk" THEN
       IF detail_str # <<>>
       THEN Lit("Symbolic dream about ", 20) \o detail_str
              \o Lit(". This dream holds messages.", 69)
       ELSE Lit("This dream ", 8) \o Str(<<"vidobrazhaye">>)
              \o Lit(" inner processes", 72)
     ELSE
       IF detail_str # <<>>
       THEN Lit("Symbolic dream about ", 21) \o detail_str
              \o Lit(". This dream holds messages.", 75)
       ELSE Lit("This dream ", 11) \o Str(<<"reflects">>)
              \o Lit(" inner processes", 70)

\* analyze_dream, the advice of the symbolic fallback when the reply is too
\* short (text given) and when there is no text
SymbolicAdvice(lang) ==
  IF lang = "ru" THEN Lit("advice:think about details", 78)
  ELSE IF lang = "uk" THEN Lit("advice:think about details", 77)
  ELSE Lit("advice:think about details", 81)

SymbolicAdviceNoText(lang) ==
  IF lang = "ru" THEN Lit("advice:details point", 83)
  ELSE Lit("advice:details point", 82)

\* --------------------------------------------------- render_analysis_text
Header(lang) ==
  IF lang = "uk" THEN Lit("header:uk", 12)
  ELSE IF lang = "ru" THEN Lit("header:ru", 12)
  ELSE Lit("header:en", 16)

\* uk_emo_map / ru_emo_map .get(lbl, lbl); the English branch has no map
EmoWord(lang, lbl) ==
  IF lang = "ru" /\ lbl = Str(<<"calm">>) THEN Lit("spokoystvie", 11)
  ELSE IF lang = "ru" /\ lbl = Str(<<"anxiety">>) THEN Lit("trevoga", 7)
  ELSE IF lang = "uk" /\ lbl = Str(<<"calm">>) THEN Lit("spokiy", 6)
  ELSE IF lang = "uk" /\ lbl = Str(<<"anxiety">>) THEN Lit("tryvoha", 7)
  ELSE lbl

RECURSIVE EmoWords(_, _)
\* emo_words: the mapped lower-cased labels that are not empty
EmoWords(emotions, lang) ==
  IF emotions = <<>> THEN <<>>
  ELSE LET lbl == Lower(Head(emotions).val)
           keep == IF lang = "en" THEN Strip(Head(emotions).val) # <<>> ELSE lbl # <<>>
       IN (IF keep THEN <<EmoWord(lang, lbl)>> ELSE <<>>) \o EmoWords(Tail(emotions), lang)

RECURSIVE Dedupe(_, _)
\* list(dict.fromkeys(q)): first occurrences, in order
Dedupe(q, seen) ==
  IF q = <<>> THEN <<>>
  ELSE IF Head(q) \in seen THEN Dedupe(Tail(q), seen)
  ELSE <<Head(q)>> \o Dedupe(Tail(q), seen \cup {Head(q)})

\* the default of emo_line
EmoDefault(lang) ==
  IF lang = "uk" THEN Lit("calm presence:uk", 20)
  ELSE IF lang = "ru" THEN Lit("calm presence:ru", 21)
  ELSE Lit("calm presence", 13)


\* emo_line
EmoLine(js, lang) ==
  LET words == Dedupe(EmoWords(GetList(js, "emotions"), lang), {})
      line == Join(words, Str(<<", ">>))
  IN IF line # <<>> THEN line ELSE EmoDefault(lang)

\* the five parts before the empty ones are dropped
RenderParts(js, psych, esoteric, advice, lang) ==
  LET emo_line == EmoLine(js, lang)
      emo_label == IF lang = "en" THEN Lit("Emotions: ", 10) ELSE Lit("Emotions: ", 8)
      adv_label == IF lang = "ru" THEN Lit("Advice: ", 7) ELSE Lit("Advice: ", 8)
  IN << Header(lang),
        IF emo_line # <<>> THEN emo_label \o emo_line \o Lit(" ~", 2) ELSE <<>>,
        psych,
        esoteric,
        IF advice # <<>> THEN adv_label \o advice ELSE <<>> >>

RECURSIVE NonEmpty(_)
\* [p for p in parts if p]
NonEmpty(parts) ==
  IF parts = <<>> THEN <<>>
  ELSE (IF Head(parts) # <<>> THEN <<Head(parts)>> ELSE <<>>) \o NonEmpty(Tail(parts))

render_analysis_text(js, psych, esoteric, advice, lang) ==
  Join(NonEmpty(RenderParts(js, psych, esoteric, advice, lang)), Str(<<"\n">>))

\* render_analysis_text raises AttributeError on an emotion that is no dict
RenderRaises(js) == EmotionsRaise(js)

\* ------------------------------------------------------------------ state
VARIABLES
  pc,        \* where the run is: the call it awaits, or how it ended
  text,      \* the dream text of the message
  lang,      \* the user's language
  js,        \* the structure
  depth,     \* classify_dream's label
  psych,     \* the three sections
  esoteric,
  advice,
  msg,       \* validate_ai_output's verdict
  calls,     \* the LLM calls made so far, by kind
  rendered,  \* the message handle_free_text answers with
  raw,       \* the reply of the LLM call that returned last
  tasks,     \* the handle_free_text invocations in flight, with their locals
  dreams,    \* the rows of table dreams
  analyses,  \* the rows of table analyses
  users,     \* the rows of table users
  loop,      \* the locals of notify_loop
  sent,      \* the messages notify_loop has sent
  clock,     \* the wall clock: day and hour
  recent_cache, \* _recent_cache: the recently returned options of each key
  chosen     \* a caller of choose_nonrepeat: its arguments, the values returned last

\* the state of the bot around one pipeline run
bot == <<tasks, dreams, analyses, users, loop, sent, clock, recent_cache, chosen>>

vars ==
  <<pc, text, lang, js, depth, psych, esoteric, advice, msg, calls, rendered,
    raw, bot>>

\* no handler in flight, empty tables, notify_loop not started, empty cache
BotIdle ==
  /\ tasks = <<>>
  /\ dreams = <<>>
  /\ analyses = <<>>
  /\ users = <<>>
  /\ loop = <<>>
  /\ sent = <<>>
  /\ clock = <<>>
  /\ recent_cache = <<>>
  /\ chosen = <<>>

\* ----------------------------------------------------------------- inputs
DreamDomestic == Str(<<"walked", " ", "Anna">>)
DreamSymbolic == Str(<<"pada", " ", "city", " ", "fear">>)
Dreams == {DreamDomestic, DreamSymbolic}

\* what the LLM can answer to the extraction prompt
StructReplies ==
  { <<>>,
    Str(<<"sorry">>),
    Str(<<"{}">>),
    Str(<<"{full}">>),
    Str(<<"sorry", "\n", "{full}">>),
    Str(<<"fence", "\n", "{full}", "\n", "fence">>),
    Str(<<"{emotions:[str]}">>),
    Str(<<"{short}">>),
    Str(<<"{summary:' '}">>),
    Str(<<"null">>),
    Str(<<"[1]">>) }

\* a line that names two details of FullObject and a meaning indicator
GoodLine == Str(<<"sea", " ", "Anna", " ", "means", " ", "filler100">>)
\* a line of exactly 100 characters that names nothing
PlainLine == Str(<<"filler100">>)

ReplyLines ==
  {Str(<<"PSYCH">>), Str(<<"ESOTERIC">>), Str(<<"ADVICE">>), GoodLine, PlainLine}

\* what the LLM can answer to an interpretation prompt
InterpReplies ==
  {Join(q, Str(<<"\n">>)) : q \in SeqsUpTo(ReplyLines, MaxReplyLines)}

Count(kind) == Cardinality({i \in 1..Len(calls) : calls[i] = kind})

\* ------------------------------------------------------------ analyze_dream
Init ==
  /\ pc = "extract"
  /\ text \in Dreams
  /\ lang \in Langs
  /\ js = EmptyObject
  /\ depth = "none"
  /\ psych = <<>>
  /\ esoteric = <<>>
  /\ advice = <<>>
  /\ msg = "none"
  /\ calls = <<>>
  /\ rendered = <<>>
  /\ raw = <<>>
  /\ BotIdle

\* the summary backfill without the strip() of the text
BackfillSummaryUnstripped(j) ==
  IF j.kind = "obj" /\ Strip(GetStr(j, "summary")) = <<>>
  THEN [j EXCEPT !.summary = StrV(Take(text, SummaryLen))]
  ELSE j

\* the summary backfill, skipped by the except clause when js is no dict
BackfillSummary(j) ==
  IF j.kind = "obj" /\ Strip(GetStr(j, "summary")) = <<>>
  THEN [j EXCEPT !.summary = StrV(Take(Strip(text), SummaryLen))]
  ELSE j

\* the heuristic backfill, skipped by the except clause when js is no dict
BackfillHeuristics(j) ==
  IF j.kind # "obj" THEN j
  ELSE [j EXCEPT
          !.symbols = IF GetList(j, "symbols") = <<>>
                        THEN ListV(HeuristicSymbols(text)) ELSE @,
          !.themes = IF GetList(j, "themes") = <<>>
                       THEN ListV(HeuristicThemes(text)) ELSE @,
          !.emotions = IF GetList(j, "emotions") = <<>>
                         THEN ListV(HeuristicEmotions(text)) ELSE @]

\* the second summary backfill and _original_text
AddContext(j) ==
  LET summ == Strip(GetStr(j, "summary"))
  IN [j EXCEPT
        !.summary = IF summ = <<>> \/ StrLen(summ) < SummaryMinLen
                      THEN StrV(Take(Strip(text), SummaryCtxLen)) ELSE @,
        !.original_text = StrV(Take(Strip(text), OriginalTextLen))]

\* The extraction call returns: parse, backfill, classify.  A reply that is
\* JSON but no object makes classify_dream or the summary check raise.
Extract ==
  /\ pc = "extract"
  /\ \E struct_raw \in StructReplies :
       LET j == BackfillHeuristics(BackfillSummary(ParseStruct(struct_raw)))
       IN /\ raw' = struct_raw
          /\ IF j.kind # "obj"
             THEN /\ pc' = "raised"
                  /\ js' = j
                  /\ depth' = depth
             ELSE /\ pc' = "generate"
                  /\ js' = AddContext(j)
                  /\ depth' = classify_dream(text, j)
  /\ calls' = Append(calls, "struct")
  /\ UNCHANGED <<text, lang, psych, esoteric, advice, msg, rendered, bot>>

\* return js, psych, esoteric, advice
Return(sec) ==
  /\ pc' = "returned"
  /\ js' = [js EXCEPT !.depth = depth]
  /\ psych' = sec.psych
  /\ esoteric' = sec.esoteric
  /\ advice' = sec.advice

\* validate_ai_output, and what follows its verdict
Validate(sec) ==
  LET v == validate_ai_output(text, js, sec.psych, sec.esoteric, sec.advice)
  IN /\ msg' = v
     /\ IF v = "ok" THEN Return(sec)
        ELSE /\ pc' = IF v = "raise" THEN "raised" ELSE "critique2"
             /\ js' = js
             /\ psych' = sec.psych
             /\ esoteric' = sec.esoteric
             /\ advice' = sec.advice

\* the advice of the symbolic fallback
AdviceStage(sec) ==
  IF sec.advice # <<>> THEN Validate(sec)
  ELSE IF text # <<>>
    THEN /\ pc' = "fb_advice"
         /\ psych' = sec.psych
         /\ esoteric' = sec.esoteric
         /\ advice' = sec.advice
         /\ UNCHANGED <<js, msg>>
  ELSE Validate([sec EXCEPT !.advice = SymbolicAdviceNoText(lang)])

\* "Ensure non-empty sections": the block entered when psych is empty
Fallback(sec) ==
  IF depth = "domestic"
  THEN \E choice \in DomesticAdvice(lang) :
         Validate([psych |-> DomesticPsych(text, js, lang),
                   esoteric |-> <<>>,
                   advice |-> IF sec.advice # <<>> THEN sec.advice ELSE choice])
  ELSE /\ pc' = "fb_retry"
       /\ psych' = sec.psych
       /\ esoteric' = sec.esoteric
       /\ advice' = sec.advice
       /\ UNCHANGED <<js, msg>>

\* after the generator's reply is split
AfterSplit(sec) ==
  IF sec.psych = <<>>
  THEN /\ pc' = "critique"
       /\ psych' = sec.psych
       /\ esoteric' = sec.esoteric
       /\ advice' = sec.advice
       /\ UNCHANGED <<js, msg>>
  ELSE Validate(sec)

\* the first generator call, retried whenever the psychological section is
\* empty
GenerateRetryOnEmptyPsych ==
  /\ pc = "generate"
  /\ \E interp_raw \in InterpReplies :
       /\ raw' = interp_raw
       /\ IF SplitFirst(interp_raw).psych = <<>>
          THEN /\ pc' = "regenerate"
               /\ UNCHANGED <<js, psych, esoteric, advice, msg>>
          ELSE AfterSplit(SplitFirst(interp_raw))
  /\ calls' = Append(calls, "generate")
  /\ UNCHANGED <<text, lang, depth, rendered, bot>>

\* the first generator call returns
Generate ==
  /\ pc = "generate"
  /\ \E interp_raw \in InterpReplies :
       /\ raw' = interp_raw
       /\ IF interp_raw = <<>>
          THEN /\ pc' = "regenerate"
               /\ UNCHANGED <<js, psych, esoteric, advice, msg>>
          ELSE AfterSplit(SplitFirst(interp_raw))
  /\ calls' = Append(calls, "generate")
  /\ UNCHANGED <<text, lang, depth, rendered, bot>>

\* "Retry once if empty": the second generator call returns
Regenerate ==
  /\ pc = "regenerate"
  /\ \E interp_raw \in InterpReplies :
       /\ raw' = interp_raw
       /\ AfterSplit(SplitFirst(interp_raw))
  /\ calls' = Append(calls, "generate")
  /\ UNCHANGED <<text, lang, depth, rendered, bot>>

\* "If AI returned empty psych, reprompt once with critique": that call returns
CritiqueEmpty ==
  /\ pc = "critique"
  /\ \E retry_raw \in InterpReplies :
       LET sec == MergeRetry(retry_raw, [psych |-> psych, esoteric |-> esoteric,
                                         advice |-> advice])
       IN /\ raw' = retry_raw
          /\ IF sec.psych = <<>> THEN Fallback(sec) ELSE Validate(sec)
  /\ calls' = Append(calls, "critique")
  /\ UNCHANGED <<text, lang, depth, rendered, bot>>

\* symbolic fallback: the call with retry_prompt_specific returns
FallbackRetry ==
  /\ pc = "fb_retry"
  /\ \E retry_result \in InterpReplies :
       LET cur == [psych |-> psych, esoteric |-> esoteric, advice |-> advice]
           n == StrLen(Strip(retry_result))
       IN /\ raw' = retry_result
          /\ IF retry_result # <<>> /\ n > RetryMinLen
             THEN AdviceStage([cur EXCEPT !.psych = Strip(retry_result)])
             ELSE IF lang = "ru" /\ ~(retry_result = <<>> \/ n < RetryMinLen)
               THEN AdviceStage(cur)
             ELSE /\ pc' = "fb_final"
                  /\ UNCHANGED <<js, psych, esoteric, advice, msg>>
  /\ calls' = Append(calls, "fallback")
  /\ UNCHANGED <<text, lang, depth, rendered, bot>>

\* symbolic fallback: the call with final_prompt returns
FallbackFinal ==
  /\ pc = "fb_final"
  /\ \E final_result \in InterpReplies :
       LET cur == [psych |-> psych, esoteric |-> esoteric, advice |-> advice]
       IN /\ raw' = final_result
          /\ IF final_result # <<>> /\ StrLen(Strip(final_result)) > FinalMinLen
             THEN AdviceStage([cur EXCEPT !.psych = Strip(final_result)])
             ELSE AdviceStage([cur EXCEPT !.psych = SymbolicLastResort(text, js, lang)])
  /\ calls' = Append(calls, "fallback")
  /\ UNCHANGED <<text, lang, depth, rendered, bot>>

\* symbolic fallback: the call with advice_prompt returns
FallbackAdvice ==
  /\ pc = "fb_advice"
  /\ \E advice_result \in InterpReplies :
       LET cur == [psych |-> psych, esoteric |-> esoteric, advice |-> advice]
       IN /\ raw' = advice_result
          /\ IF advice_result # <<>> /\ StrLen(Strip(advice_result)) > AdviceMinLen
             THEN Validate([cur EXCEPT !.advice = Strip(advice_result)])
             ELSE Validate([cur EXCEPT !.advice = SymbolicAdvice(lang)])
  /\ calls' = Append(calls, "fallback")
  /\ UNCHANGED <<text, lang, depth, rendered, bot>>

\* "Validate AI output; if weak, reprompt once with critique": that call returns
CritiqueValidation ==
  /\ pc = "critique2"
  /\ \E retry2_raw \in InterpReplies :
       /\ raw' = retry2_raw
       /\ Return(MergeRetry(retry2_raw, [psych |-> psych, esoteric |-> esoteric,
                                         advice |-> advice]))
  /\ calls' = Append(calls, "critique")
  /\ UNCHANGED <<text, lang, depth, msg, rendered, bot>>

\* handle_free_text after analyze_dream returned: render and answer
Render ==
  /\ pc = "returned"
  /\ IF RenderRaises(js)
     THEN pc' = "render_raised" /\ rendered' = rendered
     ELSE /\ pc' = "answered"
          /\ rendered' = render_analysis_text(js, psych, esoteric, advice, lang)
  /\ raw' = <<>>
  /\ UNCHANGED <<text, lang, js, depth, psych, esoteric, advice, msg, calls, bot>>

Next ==
  \/ Extract
  \/ Generate
  \/ Regenerate
  \/ CritiqueEmpty
  \/ FallbackRetry
  \/ FallbackFinal
  \/ FallbackAdvice
  \/ CritiqueValidation
  \/ Render

Spec == Init /\ [][Next]_vars

\* every call to the LLM returns, and the event loop runs the handler on
SpecLive == Spec /\ WF_vars(Next)

\* ------------------------------------------- classify_dream on its own
ClassifyWords == {"fall", "walked", "filler100", "filler20"}

ClassifyTexts ==
  {Join([i \in 1..Len(q) |-> Str(<<q[i]>>)], Str(<<" ">>)) :
     q \in SeqsUpTo(ClassifyWords, MaxTextWords)}

SymbolPool == <<StrItem("sea"), StrItem("city"), StrItem("home"), StrItem("anna")>>

ClassifyStructs ==
  {EmptyObject, [EmptyObject EXCEPT !.symbols = Null]}
    \cup {[EmptyObject EXCEPT !.symbols = ListV(FirstN(SymbolPool, n))] : n \in 0..MaxSymbols}

InitClassify ==
  /\ pc = "classify"
  /\ text \in ClassifyTexts
  /\ js \in ClassifyStructs
  /\ lang = "en"
  /\ depth = "none"
  /\ psych = <<>>
  /\ esoteric = <<>>
  /\ advice = <<>>
  /\ msg = "none"
  /\ calls = <<>>
  /\ rendered = <<>>
  /\ raw = <<>>
  /\ BotIdle

\* depth = classify_dream(text, js)
Classify ==
  /\ pc = "classify"
  /\ depth' = classify_dream(text, js)
  /\ pc' = "classified"
  /\ UNCHANGED <<text, lang, js, psych, esoteric, advice, msg, calls, rendered, raw, bot>>

\* a second call on the same arguments
ClassifyAgain ==
  /\ pc = "classified"
  /\ depth' = classify_dream(text, js)
  /\ pc' = "reclassified"
  /\ UNCHANGED <<text, lang, js, psych, esoteric, advice, msg, calls, rendered, raw, bot>>

NextClassify == Classify \/ ClassifyAgain

SpecClassify == InitClassify /\ [][NextClassify]_vars

\* ------------------------------------- render_analysis_text on its own
EmotionItems ==
  {ObjItem("anxiety"), ObjItem("calm"), [it |-> "obj", val |-> <<>>], StrItem("fear")}

RenderStructs ==
  {EmptyObject}
    \cup {[EmptyObject EXCEPT !.emotions = ListV(q)] : q \in SeqsUpTo(EmotionItems, MaxEmotions)}

RenderSections == {<<>>, Str(<<"nice">>), GoodLine \o Str(<<"\n">>) \o PlainLine}

InitRender ==
  /\ pc = "returned"
  /\ text = DreamDomestic
  /\ lang \in Langs
  /\ js \in RenderStructs
  /\ depth = "none"
  /\ psych \in RenderSections
  /\ esoteric \in RenderSections
  /\ advice \in RenderSections
  /\ msg = "none"
  /\ calls = <<>>
  /\ rendered = <<>>
  /\ raw = <<>>
  /\ BotIdle

SpecRender == InitRender /\ [][Render]_vars

\* ------------------------------- the extraction stage on its own
\* dream texts: blank, white space, padded, and longer than the summary
ExtractTexts ==
  Dreams \cup
    { <<>>,
      Str(<<" ", "\n">>),
      Str(<<" ", "filler100", " ">>),
      Str(<<"filler100", " ", "city", " ", "filler100", " ", "filler100">>) }

InitExtract ==
  /\ pc = "extract"
  /\ text \in ExtractTexts
  /\ lang \in Langs
  /\ js = EmptyObject
  /\ depth = "none"
  /\ psych = <<>>
  /\ esoteric = <<>>
  /\ advice = <<>>
  /\ msg = "none"
  /\ calls = <<>>
  /\ rendered = <<>>
  /\ raw = <<>>
  /\ BotIdle

SpecExtract == InitExtract /\ [][Extract]_vars

\* ------------------------------------- the marker split on its own
\* the lines of a reply: the markers in several spellings, text, a blank line
SplitLinePool ==
  { Str(<<" ", "psych", " ", ":">>), Str(<<"ESOTERIC">>), Str(<<"advice", ":">>),
    Str(<<"nice">>), <<>> }

SplitReplies ==
  {Join(q, Str(<<"\n">>)) : q \in SeqsUpTo(SplitLinePool, MaxSplitLines)}

InitSplit ==
  /\ pc = "split"
  /\ text = DreamDomestic
  /\ lang = "en"
  /\ js = EmptyObject
  /\ depth = "none"
  /\ psych = <<>>
  /\ esoteric = <<>>
  /\ advice = <<>>
  /\ msg = "none"
  /\ calls = <<>>
  /\ rendered = <<>>
  /\ raw \in SplitReplies
  /\ BotIdle

\* psych, esoteric, advice = the sections of interp_raw
Split ==
  /\ pc = "split"
  /\ pc' = "split_done"
  /\ psych' = SplitFirst(raw).psych
  /\ esoteric' = SplitFirst(raw).esoteric
  /\ advice' = SplitFirst(raw).advice
  /\ UNCHANGED <<text, lang, js, depth, msg, calls, rendered, raw, bot>>

SpecSplit == InitSplit /\ [][Split]_vars

\* ------------------------------- validate_ai_output on its own
\* the words a generated section is made of: a template phrase, padding,
\* two details of FullObject, a meaning indicator, the summary of FullObject
ValidateWords ==
  {"about inner movement", "filler100", "sea", "Anna", "means", "recap100"}

ValidateTexts ==
  {Join([i \in 1..Len(q) |-> Str(<<q[i]>>)], Str(<<" ">>)) :
     q \in SeqsUpTo(ValidateWords, MaxValidateWords)}

\* an object that offers one detail value only
OneDetailObject == [EmptyObject EXCEPT !.symbols = ListV(<<StrItem("sea"), StrItem("sea")>>)]

ValidateStructs ==
  {FullObject, EmptyObject, FallbackStructure, OneDetailObject, EmotionStringsObject}

InitValidate ==
  /\ pc = "validate_call"
  /\ text = DreamSymbolic
  /\ lang = "en"
  /\ js \in ValidateStructs
  /\ depth = "symbolic"
  /\ psych \in ValidateTexts
  /\ esoteric = <<>>
  /\ advice \in {<<>>, Str(<<"about inner movement">>)}
  /\ msg = "none"
  /\ calls = <<>>
  /\ rendered = <<>>
  /\ raw = <<>>
  /\ BotIdle

\* ok, msg = validate_ai_output(text, js, psych, esoteric, advice)
ValidateCall ==
  /\ pc = "validate_call"
  /\ pc' = "validate_done"
  /\ msg' = validate_ai_output(text, js, psych, esoteric, advice)
  /\ UNCHANGED <<text, lang, js, depth, psych, esoteric, advice, calls, rendered, raw, bot>>

SpecValidate == InitValidate /\ [][ValidateCall]_vars

\* ------------------- the synthesis of the terminal fallback on its own
\* dream texts: the two of the pipeline, one with a surreal key and no
\* heuristic symbol, one with a domestic hint
FallbackTexts ==
  Dreams \cup {Str(<<"stair", " ", "pada">>), Str(<<"held hands", " ", "coffee">>)}

\* the state in which "Ensure non-empty sections" finds psych empty, the
\* structure being what the extraction stage made of some reply
InitFallback ==
  /\ pc = "fallback"
  /\ text \in FallbackTexts
  /\ lang \in Langs
  /\ \E struct_raw \in StructReplies :
       LET j == BackfillHeuristics(BackfillSummary(ParseStruct(struct_raw)))
       IN /\ j.kind = "obj"
          /\ js = AddContext(j)
          /\ depth = classify_dream(text, j)
  /\ psych = <<>>
  /\ esoteric = <<>>
  /\ advice = <<>>
  /\ msg = "none"
  /\ calls = <<>>
  /\ rendered = <<>>
  /\ raw = <<>>
  /\ BotIdle

\* the text the fallback writes into psych when no LLM reply is usable
FallbackSynth ==
  /\ pc = "fallback"
  /\ pc' = "fallback_done"
  /\ psych' = IF depth = "domestic" THEN DomesticPsych(text, js, lang)
              ELSE SymbolicLastResort(text, js, lang)
  /\ UNCHANGED <<text, lang, js, depth, esoteric, advice, msg, calls, rendered, raw, bot>>

SpecFallback == InitFallback /\ [][FallbackSynth]_vars

\* ------------------------- the merge of a critique reply on its own
MergeReplies ==
  {Join(q, Str(<<"\n">>)) : q \in SeqsUpTo(SplitLinePool, MaxMergeLines)}

\* the sections before the critique call: empty, or a text no reply holds
OldSections == {<<>>, Str(<<"old">>)}

\* the state in which the reply to a critique prompt arrives
InitMerge ==
  /\ pc = "merge"
  /\ text = DreamDomestic
  /\ lang = "en"
  /\ js = EmptyObject
  /\ depth = "none"
  /\ psych \in OldSections
  /\ esoteric \in OldSections
  /\ advice \in OldSections
  /\ msg = "none"
  /\ calls = <<>>
  /\ rendered = <<>>
  /\ raw = <<>>
  /\ BotIdle

\* if retry_raw: ... psych = bucket.get("PSYCH", psych), and so on
Merge ==
  /\ pc = "merge"
  /\ pc' = "merge_done"
  /\ \E retry_raw \in MergeReplies :
       LET sec == MergeRetry(retry_raw, [psych |-> psych, esoteric |-> esoteric,
                                         advice |-> advice])
       IN /\ raw' = retry_raw
          /\ psych' = sec.psych
          /\ esoteric' = sec.esoteric
          /\ advice' = sec.advice
  /\ UNCHANGED <<text, lang, js, depth, msg, calls, rendered, bot>>

SpecMerge == InitMerge /\ [][Merge]_vars

\* ------------------- handle_free_text: concurrent runs of the pipeline
\* A run is one invocation of handle_free_text; its record holds the locals
\* of the handler and of the analyze_dream call it awaits.
Runs == {1, 2}

\* the "settings" label of the reply keyboard
MenuLabel == Str(<<"Settings">>)

\* the message text of each run
RunTexts(r) == IF r = 1 THEN {DreamDomestic, MenuLabel} ELSE {DreamSymbolic}

\* the language stored for the user of each run
RunLang(r) == IF r = 1 THEN "en" ELSE "ru"

\* what the LLM answers to the runs
BotStructReplies == {Str(<<"{full}">>), Str(<<"null">>)}
BotInterpReplies == {<<>>, GoodLine}

\* the backfills of analyze_dream on the text txt
SummaryBackfill(txt, j) ==
  IF j.kind = "obj" /\ Strip(GetStr(j, "summary")) = <<>>
  THEN [j EXCEPT !.summary = StrV(Take(Strip(txt), SummaryLen))]
  ELSE j

HeuristicBackfill(txt, j) ==
  IF j.kind # "obj" THEN j
  ELSE [j EXCEPT
          !.symbols = IF GetList(j, "symbols") = <<>>
                        THEN ListV(HeuristicSymbols(txt)) ELSE @,
          !.themes = IF GetList(j, "themes") = <<>>
                       THEN ListV(HeuristicThemes(txt)) ELSE @,
          !.emotions = IF GetList(j, "emotions") = <<>>
                         THEN ListV(HeuristicEmotions(txt)) ELSE @]

ContextAdded(txt, j) ==
  LET summ == Strip(GetStr(j, "summary"))
  IN [j EXCEPT
        !.summary = IF summ = <<>> \/ StrLen(summ) < SummaryMinLen
                      THEN StrV(Take(Strip(txt), SummaryCtxLen)) ELSE @,
        !.original_text = StrV(Take(Strip(txt), OriginalTextLen))]

\* the three sections of run record s
RunSections(s) == [psych |-> s.psych, esoteric |-> s.esoteric, advice |-> s.advice]

\* s with the sections sec, at position p
RunWith(s, sec, p) ==
  [s EXCEPT !.psych = sec.psych, !.esoteric = sec.esoteric,
            !.advice = sec.advice, !.pc = p]

\* return js, psych, esoteric, advice
RunReturn(s, sec) ==
  [RunWith(s, sec, "returned") EXCEPT !.js = [s.js EXCEPT !.depth = s.depth]]

\* validate_ai_output, and what follows its verdict
RunValidate(s, sec) ==
  LET v == validate_ai_output(s.text, s.js, sec.psych, sec.esoteric, sec.advice)
  IN IF v = "ok" THEN RunReturn(s, sec)
     ELSE RunWith(s, sec, IF v = "raise" THEN "raised" ELSE "critique2")

\* the advice of the symbolic fallback
RunAdviceStage(s, sec) ==
  IF sec.advice # <<>> THEN RunValidate(s, sec)
  ELSE IF s.text # <<>> THEN RunWith(s, sec, "fb_advice")
  ELSE RunValidate(s, [sec EXCEPT !.advice = SymbolicAdviceNoText(s.lang)])

\* "Ensure non-empty sections"; choice is what random.choice returns
RunFallback(s, sec, choice) ==
  IF s.depth = "domestic"
  THEN RunValidate(s, [psych |-> DomesticPsych(s.text, s.js, s.lang),
                       esoteric |-> <<>>,
                       advice |-> IF sec.advice # <<>> THEN sec.advice ELSE choice])
  ELSE RunWith(s, sec, "fb_retry")

\* after the generator's reply is split
RunAfterSplit(s, sec) ==
  IF sec.psych = <<>> THEN RunWith(s, sec, "critique") ELSE RunValidate(s, sec)

\* the extraction call returns
RunExtract(s, reply) ==
  LET j == HeuristicBackfill(s.text, SummaryBackfill(s.text, ParseStruct(reply)))
  IN IF j.kind # "obj" THEN [s EXCEPT !.pc = "raised", !.js = j]
     ELSE [s EXCEPT !.pc = "generate", !.js = ContextAdded(s.text, j),
                    !.depth = classify_dream(s.text, j)]

\* analyze_dream of run record s resumes with the reply of the call it awaits
RunStep(s, reply, choice) ==
  LET n == StrLen(Strip(reply))
  IN CASE s.pc = "extract" -> RunExtract(s, reply)
       [] s.pc = "generate" ->
            IF reply = <<>> THEN [s EXCEPT !.pc = "regenerate"]
            ELSE RunAfterSplit(s, SplitFirst(reply))
       [] s.pc = "regenerate" -> RunAfterSplit(s, SplitFirst(reply))
       [] s.pc = "critique" ->
            LET sec == MergeRetry(reply, RunSections(s))
            IN IF sec.psych = <<>> THEN RunFallback(s, sec, choice)
               ELSE RunValidate(s, sec)
       [] s.pc = "fb_retry" ->
            IF reply # <<>> /\ n > RetryMinLen
            THEN RunAdviceStage(s, [RunSections(s) EXCEPT !.psych = Strip(reply)])
            ELSE IF s.lang = "ru" /\ ~(reply = <<>> \/ n < RetryMinLen)
              THEN RunAdviceStage(s, RunSections(s))
            ELSE [s EXCEPT !.pc = "fb_final"]
       [] s.pc = "fb_final" ->
            IF reply # <<>> /\ n > FinalMinLen
            THEN RunAdviceStage(s, [RunSections(s) EXCEPT !.psych = Strip(reply)])
            ELSE RunAdviceStage(s, [RunSections(s) EXCEPT
                                      !.psych = SymbolicLastResort(s.text, s.js, s.lang)])
       [] s.pc = "fb_advice" ->
            IF reply # <<>> /\ n > AdviceMinLen
            THEN RunValidate(s, [RunSections(s) EXCEPT !.advice = Strip(reply)])
            ELSE RunValidate(s, [RunSections(s) EXCEPT !.advice = SymbolicAdvice(s.lang)])
       [] s.pc = "critique2" -> RunReturn(s, MergeRetry(reply, RunSections(s)))

\* the positions at which a run awaits an LLM call
CallPcs ==
  {"extract", "generate", "regenerate", "critique", "fb_retry", "fb_final",
   "fb_advice", "critique2"}

\* the positions at which a handler has ended
EndPcs == {"menu", "answered", "raised", "render_raised"}

\* a handler that has just received its message
StartRun(r, txt) ==
  [pc |-> "start", text |-> txt, lang |-> RunLang(r), js |-> EmptyObject,
   depth |-> "none", psych |-> <<>>, esoteric |-> <<>>, advice |-> <<>>,
   dream_id |-> 0, hist |-> <<>>]

InitBot ==
  /\ pc = "bot"
  /\ text = <<>>
  /\ lang = "en"
  /\ js = EmptyObject
  /\ depth = "none"
  /\ psych = <<>>
  /\ esoteric = <<>>
  /\ advice = <<>>
  /\ msg = "none"
  /\ calls = <<>>
  /\ rendered = <<>>
  /\ raw = <<>>
  /\ tasks \in {[r \in Runs |-> StartRun(r, f[r])] :
                   f \in {g \in [Runs -> UNION {RunTexts(r) : r \in Runs}] :
                            \A r \in Runs : g[r] \in RunTexts(r)}}
  /\ dreams = <<>>
  /\ analyses = <<>>
  /\ users = <<>>
  /\ loop = <<>>
  /\ sent = <<>>
  /\ clock = <<>>
  /\ recent_cache = <<>>
  /\ chosen = <<>>

\* the pipeline variables of the single-run specification, unused here
single ==
  <<pc, text, lang, js, depth, psych, esoteric, advice, msg, calls, rendered, raw>>

\* handle_free_text up to its first LLM call: a menu label is answered with
\* its submenu, any other text is stored as a dream and analysed
Accept(r) ==
  /\ tasks[r].pc = "start"
  /\ IF Strip(tasks[r].text) = MenuLabel
     THEN /\ tasks' = [tasks EXCEPT ![r].pc = "menu"]
          /\ dreams' = dreams
     ELSE /\ dreams' = Append(dreams, [raw_text |-> Strip(tasks[r].text)])
          /\ tasks' = [tasks EXCEPT ![r].pc = "extract",
                                     ![r].dream_id = Len(dreams) + 1]
  /\ UNCHANGED <<single, recent_cache, chosen, analyses, users, loop, sent, clock>>

\* the id of the newest dream row instead of the run's own dream_id
AnalysisDreamIdLatest(r) == Len(dreams)

\* the dream_id handed to insert_analysis
AnalysisDreamId(r) == tasks[r].dream_id

\* the row insert_analysis writes for the run record s
AnalysisRow(r, s) ==
  [dream_id |-> AnalysisDreamId(r), language |-> s.lang, json_struct |-> s.js,
   psych |-> s.psych, esoteric |-> s.esoteric, advice |-> s.advice]

\* an LLM call of run r returns; when analyze_dream returns with it, the
\* handler stores the analysis, renders it and answers
LlmReturn(r) ==
  /\ tasks[r].pc \in CallPcs
  /\ \E reply \in (IF tasks[r].pc = "extract" THEN BotStructReplies
                                                ELSE BotInterpReplies),
        choice \in DomesticAdvice(tasks[r].lang) :
       LET s == [RunStep(tasks[r], reply, choice) EXCEPT
                   !.hist = Append(tasks[r].hist, reply)]
       IN IF s.pc = "returned"
          THEN /\ analyses' = Append(analyses, AnalysisRow(r, s))
               /\ tasks' = [tasks EXCEPT ![r] =
                     [s EXCEPT !.pc = IF RenderRaises(s.js) THEN "render_raised"
                                                            ELSE "answered"]]
          ELSE /\ analyses' = analyses
               /\ tasks' = [tasks EXCEPT ![r] = s]
  /\ UNCHANGED <<single, recent_cache, chosen, dreams, users, loop, sent, clock>>

NextBot == \E r \in Runs : Accept(r) \/ LlmReturn(r)

SpecBot == InitBot /\ [][NextBot]_vars

\* ------------------------------------- notify_loop and the settings
Users == {1, 2}

\* two IANA zones that /tz accepts, 25 hours apart (UTC+14 and UTC-11)
Zones == {"Pacific/Kiritimati", "Pacific/Pago_Pago"}

\* the hours /daily stores in the model: the default and one the loop acts at
DailyHours == {DefaultDailyHour, EveningHour}

\* the clock shows the time of Pacific/Pago_Pago; the hours it passes through,
\* and the hour after h
Hours == {MorningHour - 1, MorningHour, NoonHour, EveningHour - 1, EveningHour}
HourAfter(h) ==
  IF h = MorningHour - 1 THEN MorningHour
  ELSE IF h = MorningHour THEN NoonHour
  ELSE IF h = NoonHour THEN EveningHour - 1
  ELSE IF h = EveningHour - 1 THEN EveningHour
  ELSE MorningHour - 1

\* now_utc...astimezone(ZoneInfo(tz)): the local date and hour of a user
LocalNow(now, tz) ==
  IF tz = "Pacific/Kiritimati" THEN [day |-> now.day + 1, hour |-> now.hour + 1]
  ELSE now

InitNotify ==
  /\ pc = "bot"
  /\ text = <<>>
  /\ lang = "en"
  /\ js = EmptyObject
  /\ depth = "none"
  /\ psych = <<>>
  /\ esoteric = <<>>
  /\ advice = <<>>
  /\ msg = "none"
  /\ calls = <<>>
  /\ rendered = <<>>
  /\ raw = <<>>
  /\ tasks = <<>>
  /\ dreams = <<>>
  /\ analyses = <<>>
  /\ users \in [Users -> [notifications_enabled : {0, 1},
                           timezone : {"Pacific/Kiritimati"},
                           daily_hour : {DefaultDailyHour},
                           last_morning_sent : {0}, last_evening_sent : {0}]]
  /\ loop = [pc |-> "sleep", rows |-> <<>>, i |-> 0, kind |-> "none",
             now |-> [day |-> 0, hour |-> 0]]
  /\ sent = <<>>
  /\ clock = [day |-> 1, hour |-> MorningHour - 1]
  /\ recent_cache = <<>>
  /\ chosen = <<>>

\* time passes to the next hour of the model
TimePasses ==
  /\ clock.hour = EveningHour => clock.day < MaxDays
  /\ clock' = [day |-> IF clock.hour = EveningHour THEN clock.day + 1 ELSE clock.day,
               hour |-> HourAfter(clock.hour)]
  /\ UNCHANGED <<single, recent_cache, chosen, tasks, dreams, analyses, users, loop, sent>>

RECURSIVE SelectEnabled(_, _)
\* SELECT tg_user_id, language, timezone, last_morning_sent, last_evening_sent
\* FROM users WHERE notifications_enabled=1, on the table us, for the users
\* from u on
SelectEnabled(us, u) ==
  IF u \notin Users THEN <<>>
  ELSE (IF us[u].notifications_enabled = 1
          THEN <<[tg_id |-> u, tz |-> us[u].timezone,
                  last_m |-> us[u].last_morning_sent,
                  last_e |-> us[u].last_evening_sent]>>
          ELSE <<>>)
       \o SelectEnabled(us, u + 1)

\* the condition of the message of the given kind for a fetched row
Due(row, kind, now) ==
  LET local_now == LocalNow(now, row.tz)
  IN IF kind = "morning"
     THEN local_now.hour = MorningHour /\ row.last_m # local_now.day
     ELSE local_now.hour = EveningHour /\ row.last_e # local_now.day

RECURSIVE NextDue(_, _, _, _)
\* the next message the for loop sends, from row i and the given kind on;
\* i is past the rows when there is none
NextDue(rows, i, kind, now) ==
  IF i > Len(rows) THEN [i |-> i, kind |-> "none"]
  ELSE IF Due(rows[i], kind, now) THEN [i |-> i, kind |-> kind]
  ELSE IF kind = "morning" THEN NextDue(rows, i, "evening", now)
  ELSE NextDue(rows, i + 1, "morning", now)

\* the for loop runs on to its next send_message, or to asyncio.sleep: the
\* loop and the log of messages handed to send_message after that
RunsOn(log, rows, i, kind, now) ==
  LET nxt == NextDue(rows, i, kind, now)
  IN IF nxt.kind = "none"
     THEN [loop |-> [pc |-> "sleep", rows |-> <<>>, i |-> 0, kind |-> "none",
                     now |-> [day |-> 0, hour |-> 0]],
           sent |-> log]
     ELSE [loop |-> [pc |-> "sending", rows |-> rows, i |-> nxt.i,
                     kind |-> nxt.kind, now |-> now],
           sent |-> Append(log, [to |-> rows[nxt.i].tg_id, kind |-> nxt.kind,
                                 day |-> LocalNow(now, rows[nxt.i].tz).day,
                                 hour |-> LocalNow(now, rows[nxt.i].tz).hour,
                                 delivered |-> FALSE])]

LoopRunsOn(log, rows, i, kind, now) ==
  LET r == RunsOn(log, rows, i, kind, now)
  IN /\ Len(r.sent) <= MaxSent
     /\ loop' = r.loop
     /\ sent' = r.sent

\* a tick that fetches the users whose daily_hour is their local hour
WakeAtDailyHour(us) ==
  LET at_hour == [u \in Users |->
                    [us[u] EXCEPT !.notifications_enabled =
                       IF us[u].daily_hour = LocalNow(clock, us[u].timezone).hour
                       THEN @ ELSE 0]]
  IN RunsOn(sent, SelectEnabled(at_hour, 1), 1, "morning", clock)

\* what a tick of notify_loop that starts on the table us does first
Wake(us) == RunsOn(sent, SelectEnabled(us, 1), 1, "morning", clock)

\* notify_loop wakes up: it reads the clock, fetches the enabled users and
\* starts the for loop
LoopWakes ==
  /\ loop.pc = "sleep"
  /\ Len(Wake(users).sent) <= MaxSent
  /\ loop' = Wake(users).loop
  /\ sent' = Wake(users).sent
  /\ UNCHANGED <<single, recent_cache, chosen, tasks, dreams, analyses, users, clock>>

\* bot.send_message returns: the date is stored, or the exception of a
\* failed send is swallowed; the for loop goes on
SendReturns ==
  /\ loop.pc = "sending"
  /\ \E delivered \in BOOLEAN :
       LET row == loop.rows[loop.i]
           u == row.tg_id
           today == LocalNow(loop.now, row.tz).day
           log == [sent EXCEPT ![Len(sent)].delivered = delivered]
       IN /\ users' =
               IF ~delivered THEN users
               ELSE IF loop.kind = "morning"
                 THEN [users EXCEPT ![u].last_morning_sent = today]
               ELSE [users EXCEPT ![u].last_evening_sent = today]
          /\ IF loop.kind = "morning"
             THEN LoopRunsOn(log, loop.rows, loop.i, "evening", loop.now)
             ELSE LoopRunsOn(log, loop.rows, loop.i + 1, "morning", loop.now)
  /\ UNCHANGED <<single, recent_cache, chosen, tasks, dreams, analyses, clock>>

\* set_notifications(tg_user_id, enabled), from the settings callback or
\* /daily on, /daily off
SetNotifications(u, enabled) ==
  /\ users[u].notifications_enabled # enabled
  /\ users' = [users EXCEPT ![u].notifications_enabled = enabled]
  /\ UNCHANGED <<single, recent_cache, chosen, tasks, dreams, analyses, loop, sent, clock>>

\* /daily with an hour: set_notifications(uid, enabled, hour), enabled being
\* the given one or, for /daily <hour>, the stored one
cmd_daily(u, enabled, hour) ==
  /\ users[u].daily_hour # hour
  /\ users' = [users EXCEPT ![u].notifications_enabled = enabled,
                            ![u].daily_hour = hour]
  /\ UNCHANGED <<single, recent_cache, chosen, tasks, dreams, analyses, loop, sent, clock>>

\* /tz <zone>: set_timezone_for_user
cmd_tz(u, tz) ==
  /\ users[u].timezone # tz
  /\ users' = [users EXCEPT ![u].timezone = tz]
  /\ UNCHANGED <<single, recent_cache, chosen, tasks, dreams, analyses, loop, sent, clock>>

NextNotify ==
  \/ TimePasses
  \/ LoopWakes
  \/ SendReturns
  \/ \E u \in Users, enabled \in {0, 1} : SetNotifications(u, enabled)
  \/ \E u \in Users, tz \in Zones : cmd_tz(u, tz)

SpecNotify == InitNotify /\ [][NextNotify]_vars

\* -------------------------------------- the stored language of a user
\* the script of a word: "uk:" words hold a letter of UA_CHARS, "ru:" words
\* Cyrillic letters only, every other word none of them
Script(w) ==
  IF w \in {"uk:mriya"} THEN "uk" ELSE IF w \in {"ru:son"} THEN "ru" ELSE "other"

detect_lang(t) ==
  IF \E i \in 1..Len(t) : Script(t[i].w) = "uk" THEN "uk"
  ELSE IF \E i \in 1..Len(t) : Script(t[i].w) \in {"ru", "uk"} THEN "ru"
  ELSE "en"

\* the texts of the messages that are no command, and the payloads of /start
FreeTexts == {Str(<<"dream">>), Str(<<"ru:son">>), Str(<<"uk:mriya">>)}

\* every user has sent /start, the first message Telegram lets a user send,
\* so each has a users row; settings_language is history: the code of the
\* user's last settings:language callback
InitLang ==
  /\ pc = "bot"
  /\ text = <<>>
  /\ lang = "en"
  /\ js = EmptyObject
  /\ depth = "none"
  /\ psych = <<>>
  /\ esoteric = <<>>
  /\ advice = <<>>
  /\ msg = "none"
  /\ calls = <<>>
  /\ rendered = <<>>
  /\ raw = <<>>
  /\ tasks = <<>>
  /\ dreams = <<>>
  /\ analyses = <<>>
  /\ users = [u \in Users |->
               [language |-> detect_lang(Str(<<"/start">>)), settings_language |-> ""]]
  /\ loop = <<>>
  /\ sent = <<>>
  /\ clock = <<>>
  /\ recent_cache = <<>>
  /\ chosen = <<>>

get_lang_for_user(u, fallback) ==
  IF users[u].language # "" THEN users[u].language ELSE fallback

\* the users table after get_or_create_user(u, username, language) for a
\* user who has a row: the language of the row is overwritten
get_or_create_user(u, language) == [users EXCEPT ![u].language = language]

\* /start, with or without a payload: the language detected in the text of
\* the command is stored
cmd_start(u, payload) ==
  /\ LET initial_lang == detect_lang(Str(<<"/start", " ">>) \o payload)
     IN users' = get_or_create_user(u, initial_lang)
  /\ UNCHANGED <<single, recent_cache, chosen, tasks, dreams, analyses, loop, sent, clock>>

\* a dream submission or other free text, and likewise /stats, /ask,
\* /history and the diary callback: the stored language, or the detected one
\* when none is stored, is stored
handle_free_text_lang(u, user_text) ==
  /\ LET l == get_lang_for_user(u, detect_lang(user_text))
     IN users' = get_or_create_user(u, l)
  /\ UNCHANGED <<single, recent_cache, chosen, tasks, dreams, analyses, loop, sent, clock>>

\* the callback settings:language:<code>: set_language_for_user
cb_settings_language(u, code) ==
  /\ users' = [users EXCEPT ![u].language = code, ![u].settings_language = code]
  /\ UNCHANGED <<single, recent_cache, chosen, tasks, dreams, analyses, loop, sent, clock>>

NextLang ==
  \E u \in Users :
    \/ \E payload \in FreeTexts \cup {<<>>} : cmd_start(u, payload)
    \/ \E user_text \in FreeTexts : handle_free_text_lang(u, user_text)
    \/ \E code \in Langs : cb_settings_language(u, code)

SpecLang == InitLang /\ [][NextLang]_vars

\* ------------------------------------------ notify_loop and /daily
\* users in either zone, who use /daily and the settings
InitDaily ==
  /\ pc = "bot"
  /\ text = <<>>
  /\ lang = "en"
  /\ js = EmptyObject
  /\ depth = "none"
  /\ psych = <<>>
  /\ esoteric = <<>>
  /\ advice = <<>>
  /\ msg = "none"
  /\ calls = <<>>
  /\ rendered = <<>>
  /\ raw = <<>>
  /\ tasks = <<>>
  /\ dreams = <<>>
  /\ analyses = <<>>
  /\ users \in [Users -> [notifications_enabled : {0, 1},
                           timezone : Zones,
                           daily_hour : {DefaultDailyHour},
                           last_morning_sent : {0}, last_evening_sent : {0}]]
  /\ loop = [pc |-> "sleep", rows |-> <<>>, i |-> 0, kind |-> "none",
             now |-> [day |-> 0, hour |-> 0]]
  /\ sent = <<>>
  /\ clock = [day |-> 1, hour |-> MorningHour - 1]
  /\ recent_cache = <<>>
  /\ chosen = <<>>

NextDaily ==
  \/ TimePasses
  \/ LoopWakes
  \/ SendReturns
  \/ \E u \in Users, enabled \in {0, 1} : SetNotifications(u, enabled)
  \/ \E u \in Users, enabled \in {0, 1}, hour \in DailyHours : cmd_daily(u, enabled, hour)

SpecDaily == InitDaily /\ [][NextDaily]_vars

\* ------------------------------------------------------ choose_nonrepeat
Keys == {"advice"}
OptionValues == {"a", "b", "c"}

\* the option lists of a caller: at least two distinct values, repeats allowed
OptionLists ==
  {o \in SeqsUpTo(OptionValues, MaxOptions) :
     Cardinality({o[i] : i \in 1..Len(o)}) >= 2}

\* the values of parameter k, its default among them
Ks == {0, 1, 2, DefaultK}

\* _recent_cache.get(key, [])
CacheGet(key) == IF key \in DOMAIN recent_cache THEN recent_cache[key] ELSE <<>>

\* [o for o in options if o not in used]
Candidates(options, used) ==
  LET unused(o) == \A i \in 1..Len(used) : used[i] # o
  IN SelectSeq(options, unused)

\* used[-k:]: the last k entries, and the whole list when k is 0
LastK(used, k) ==
  IF k = 0 \/ k >= Len(used) THEN used
  ELSE SubSeq(used, Len(used) - k + 1, Len(used))

\* one caller with its key, option list and k; no call made yet
InitChoose ==
  /\ pc = "bot"
  /\ text = <<>>
  /\ lang = "en"
  /\ js = EmptyObject
  /\ depth = "none"
  /\ psych = <<>>
  /\ esoteric = <<>>
  /\ advice = <<>>
  /\ msg = "none"
  /\ calls = <<>>
  /\ rendered = <<>>
  /\ raw = <<>>
  /\ tasks = <<>>
  /\ dreams = <<>>
  /\ analyses = <<>>
  /\ users = <<>>
  /\ loop = <<>>
  /\ sent = <<>>
  /\ clock = <<>>
  /\ recent_cache = <<>>
  /\ \E key \in Keys, options \in OptionLists, k \in Ks :
       chosen = [key |-> key, options |-> options, k |-> k, returned |-> <<>>]

\* choose_nonrepeat(options, key, k), random.choice taking any candidate;
\* the caller keeps the values its last two calls returned
choose_nonrepeat(options, key, k) ==
  LET got == CacheGet(key)
      left == Candidates(options, got)
      candidates == IF left = <<>> THEN options ELSE left
      used == IF left = <<>> THEN <<>> ELSE got
  IN \E i \in 1..Len(candidates) :
       LET choice == candidates[i]
           appended == Append(used, choice)
           kept == IF Len(appended) > k THEN LastK(appended, k) ELSE appended
       IN /\ recent_cache' = [x \in DOMAIN recent_cache \cup {key} |->
                                IF x = key THEN kept ELSE recent_cache[x]]
          /\ chosen' = [chosen EXCEPT
                          !.returned = IF Len(@) = 2 THEN <<@[2], choice>>
                                       ELSE Append(@, choice)]
          /\ UNCHANGED <<single, tasks, dreams, analyses, users, loop, sent, clock>>

NextChoose == choose_nonrepeat(chosen.options, chosen.key, chosen.k)

SpecChoose == InitChoose /\ [][NextChoose]_vars

\* ----------------------------------------------------------------- claims
Returned == pc \in {"returned", "answered", "render_raised"}

\* C1: the psychological section analyze_dream returns is never empty.
C1_PsychNonEmpty == Returned => psych # <<>>

\* C2: analyze_dream never raises, whatever the LLM replies.
C2_NeverRaises == pc # "raised"

\* C3: at most two generator calls and at most one critique-guided repair
\* call are made in a run.
C3_RetryBudget == Count("generate") <= 2 /\ Count("critique") <= 1

\* C4: the terminal fallback makes no LLM call.
C4_FallbackNoLlm == Count("fallback") = 0

\* C5: every run reaches the return statement of analyze_dream.
C5_Completes == <>Returned

\* the psychological section is one that the fallback synthesizes
IsFallbackPsych ==
  psych \in {DomesticPsych(text, js, lang), SymbolicLastResort(text, js, lang)}

\* C6: the sections analyze_dream returns pass validate_ai_output or are the
\* fallback synthesis.
C6_GateOrFallback ==
  pc = "returned" =>
    \/ validate_ai_output(text, js, psych, esoteric, advice) = "ok"
    \/ IsFallbackPsych

\* the values of the structure's symbols, actions and characters
CoreDetails(j) ==
  ItemVals(GetList(j, "symbols"), "str")
    \cup ItemVals(GetList(j, "actions"), "str")
    \cup ItemVals(GetList(j, "characters"), "obj")

\* C7: when the structure has a symbol, action or character, the returned
\* psychological section names at least two of those values.
C7_TwoDetails ==
  (pc = "returned" /\ CoreDetails(js) # {}) =>
    Cardinality({d \in CoreDetails(js) : InStr(d, Lower(psych))}) >= 2

\* C8: for every structure, render_analysis_text returns a message that starts
\* with the header line and has at least one more non-empty line.
C8_RenderSections ==
  pc \in {"answered", "render_raised"} =>
    LET lines == SplitLines(rendered, <<>>)
    IN /\ pc = "answered"
       /\ rendered # <<>>
       /\ Len(lines) >= 2
       /\ lines[1] = Header(lang)
       /\ lines[2] # <<>>

\* C9: the message rendered for a domestic dream has an advice line and no
\* esoteric section.
C9_DomesticRender ==
  (pc = "answered" /\ depth = "domestic") =>
    /\ advice # <<>>
    /\ rendered = render_analysis_text(js, psych, <<>>, advice, lang)

\* the eight fields of the structure schema
SchemaFields ==
  {"location", "characters", "actions", "symbols", "emotions", "themes",
   "archetypes", "summary"}

\* the extraction reply is one well-formed document that follows the schema
SchemaReply(r) == JsonLoadsOk(r) /\ NonWs(r)[1].w \in SchemaDocs

\* C11: when the extraction reply is a well-formed object that follows the
\* schema, the structure of the extractor has the reply's value in each of
\* the eight fields.
C11_RoundTrip ==
  (pc = "generate" /\ SchemaReply(raw)) =>
    \A f \in SchemaFields : js[f] = JsonLoads(raw)[f]

\* s is s2[:n] for some n
IsPrefixOf(s, s2) == s = Take(s2, StrLen(s))

\* C12: the summary of the structure analyze_dream returns is a prefix of the
\* stripped dream text.
C12_SummaryFromInput ==
  pc = "generate" => IsPrefixOf(GetStr(js, "summary"), Strip(text))

\* the extraction reply gives no summary: none, empty, white space only, or
\* the reply does not parse
LacksSummary(r) == Strip(GetStr(ParseStruct(r), "summary")) = <<>>

C14_FieldsNeverNull ==
  pc = "generate" => \A f \in SchemaFields : js[f].t \in {"str", "list"}

\* the lines of reply r that are the marker key
MarkerLines(r, key) ==
  LET lines == SplitLines(r, <<>>)
  IN {i \in 1..Len(lines) : MarkerOf(lines[i]) = key}

\* r has each of the three markers on exactly one line
EachMarkerOnce(r) == \A key \in Markers : Cardinality(MarkerLines(r, key)) = 1

\* the text of r between the line of marker key and the next marker line or
\* the end of r, trimmed
Between(r, key) ==
  LET lines == SplitLines(r, <<>>)
      at == CHOOSE i \in MarkerLines(r, key) : TRUE
      later == {j \in (at + 1)..Len(lines) : MarkerOf(lines[j]) # ""}
      next == IF later = {} THEN Len(lines) + 1
              ELSE CHOOSE j \in later : \A k \in later : j <= k
  IN Strip(Join(SubSeq(lines, at + 1, next - 1), Str(<<"\n">>)))

\* C15: for a reply with the three markers, each on one line of its own, each
\* section is the trimmed text between its marker line and the next marker
\* line or the end of the reply.
C15_SplitBoundaries ==
  (pc = "split_done" /\ EachMarkerOnce(raw)) =>
    /\ psych = Between(raw, "PSYCH")
    /\ esoteric = Between(raw, "ESOTERIC")
    /\ advice = Between(raw, "ADVICE")

\* r has no marker line
NoMarker(r) == \A key \in Markers : MarkerLines(r, key) = {}

\* C19: a non-empty reply without marker line, to the generator prompt or to
\* a critique prompt, becomes the psychological section in full.
C19_NoMarkerReplyKept ==
  [][(/\ pc \in {"generate", "regenerate", "critique", "critique2"}
      /\ raw' # <<>>
      /\ NoMarker(raw')) => psych' = Strip(raw')]_vars

\* interp_prompt: the structure, the language and the depth line
InterpPrompt == [structure |-> js, language |-> lang, depth |-> depth]

\* C20: the generator prompt is sent a second time exactly when its first
\* reply is empty, the second call has the prompt of the first, and the
\* prompt is never sent a third time.
C20_GeneratorRetry ==
  [][/\ pc = "generate" => ((pc' = "regenerate") <=> (raw' = <<>>))
     /\ pc' = "regenerate" => (pc = "generate" /\ InterpPrompt' = InterpPrompt)
     /\ (Count("generate")' # Count("generate")) =>
          /\ pc \in {"generate", "regenerate"}
          /\ pc = "regenerate" => Count("generate") = 1
     /\ Count("generate")' <= 2]_vars

\* C20 witness: a run that returned after the second generator call
C20_Witness ==
  /\ pc = "returned"
  /\ calls = <<"struct", "generate", "generate">>
  /\ psych # <<>>

RECURSIVE RunFold(_, _, _)
\* analyze_dream run alone on the replies h, from run record s
RunFold(s, h, c) ==
  IF h = <<>> \/ s.pc \notin CallPcs THEN s
  ELSE RunFold(RunStep(s, Head(h), c), Tail(h), c)

\* what run r returns when it runs alone on its own text and replies
Alone(r, c) ==
  RunFold([StartRun(r, tasks[r].text) EXCEPT !.pc = "extract"], tasks[r].hist, c)

RowsKept(old, new) == Len(new) >= Len(old) /\ SubSeq(new, 1, Len(old)) = old

\* C17: when no handler is in flight every dream row has exactly one analysis
\* row, and no step changes or removes a dream row or an analysis row.
C17_OneAnalysisPerDream ==
  /\ []((\A r \in Runs : tasks[r].pc \in EndPcs) =>
          \A d \in 1..Len(dreams) :
            Cardinality({i \in 1..Len(analyses) : analyses[i].dream_id = d}) = 1)
  /\ [][RowsKept(dreams, dreams') /\ RowsKept(analyses, analyses')]_vars

\* C18: notify_loop sends a message only to a user whose notifications are
\* enabled at that moment.
C18_NoSendAfterOff ==
  [][\A u \in Users :
       (Len(sent') > Len(sent) /\ sent'[Len(sent')].to = u) =>
         users[u].notifications_enabled = 1]_vars

\* the decision table of the depth classifier
DecisionTable(txt, j) ==
  LET low == Lower(txt)
      surreal == \E k \in surreal_keys : Contains(low, k)
      social == \E a \in simple_actions : Contains(low, a)
      nsymbols == Len(GetList(j, "symbols"))
  IN CASE surreal -> "symbolic"
       [] ~surreal /\ StrLen(txt) < 220 /\ social -> "domestic"
       [] ~surreal /\ ~(StrLen(txt) < 220 /\ social)
            /\ nsymbols <= 1 /\ StrLen(txt) < 300 -> "domestic"
       [] OTHER -> "symbolic"

\* C10: classify_dream returns the label of the decision table, on the first
\* call and on a second call with the same arguments.
C10_DecisionTable ==
  pc \in {"classified", "reclassified"} => depth = DecisionTable(text, js)

\* C10 witness: a text of 220 characters or more with a social action that
\* the symbol-count rule labels domestic, classified twice
C10_Witness ==
  /\ pc = "reclassified"
  /\ depth = "domestic"
  /\ StrLen(text) >= 220
  /\ Contains(text, "walked")
  /\ Len(GetList(js, "symbols")) = 1

\* the rules of the quality gate in the documented order: length floor,
\* concreteness, non-boilerplate, non-echo, meaning disclosure
DocumentedFirst(t, j, p, e, a) ==
  LET combined == Combined(p, e, a)
      psych_lower == Strip(Lower(p))
      summary == Strip(GetStr(j, "summary"))
  IN IF StrLen(psych_lower) < MinPsychLen THEN "short"
     ELSE IF Cardinality({d \in Details(j) : InStr(d, combined)}) < MinDetailRefs
       THEN "details"
     ELSE IF AnyIn(combined, generic_patterns) THEN "generic"
     ELSE IF \E f \in forbidden : Contains(combined, f) /\ ~Contains(Lower(t), f)
       THEN "forbidden"
     ELSE IF StrLen(summary) >= EchoPrefixLen
             /\ InStr(Take(Lower(summary), EchoPrefixLen), combined)
       THEN "echo"
     ELSE IF ~AnyIn(psych_lower, meaning_indicators)
             /\ StrLen(psych_lower) > MeaningMinLen
       THEN "meaning"
     ELSE "ok"

\* C21: when validate_ai_output returns, its message is the one of the
\* earliest violated rule in the documented order (length floor,
\* concreteness, non-boilerplate, non-echo, meaning disclosure)
C21_EarliestRule ==
  (pc = "validate_done" /\ msg # "raise")
    => msg = DocumentedFirst(text, js, psych, esoteric, advice)

\* the reply is not JSON itself and holds one JSON object among other text
EmbeddedObject(s) ==
  /\ ~JsonLoadsOk(s)
  /\ Cardinality({i \in 1..Len(s) : s[i].w \in ObjectDocs}) = 1
  /\ \E i \in 1..Len(s) : ~IsWs(s[i]) /\ s[i].w \notin JsonDocs

EmbeddedDoc(s) == JsonOf(s[CHOOSE i \in 1..Len(s) : s[i].w \in ObjectDocs].w)

\* C22: when the extraction reply is not valid JSON but holds a valid JSON
\* object with other text before it, after it or both, the structure has the
\* fields of that object, not those of the all-empty structure
C22_EmbeddedObjectRecovered ==
  (pc = "generate" /\ EmbeddedObject(raw))
    => \A f \in {"location", "characters", "actions"} : js[f] = EmbeddedDoc(raw)[f]

\* the lower-cased non-empty values of the structure's list fields and location
ConcreteValues(j) ==
  UNION {ItemVals(GetList(j, f), k) :
           f \in {"symbols", "actions", "characters", "emotions", "themes", "archetypes"},
           k \in {"str", "obj"}}
    \cup (IF GetStr(j, "location") # <<>> THEN {Lower(GetStr(j, "location"))} ELSE {})

\* the dream details a literal phrase of the fallback names
LiteralDetails(p) ==
  IF \E i \in 1..Len(p) : p[i].w = " inner processes (stairs, falling, ocean)"
  THEN {"stair", "pada", "okean"} ELSE {}

\* C23: the psychological section the terminal fallback synthesizes names at
\* least one value of the structure's fields and names no dream detail that
\* is absent from both the structure and the dream text
C23_FallbackGrounded ==
  pc = "fallback_done" =>
    /\ \E d \in ConcreteValues(js) : InStr(d, Lower(psych))
    /\ \A d \in LiteralDetails(psych) :
         Contains(Lower(text), d) \/ Str(<<d>>) \in ConcreteValues(js)

\* C24: render_analysis_text returns the header, the emotion line, psych,
\* esoteric and the advice line in this order, joined by single newlines with
\* the empty parts left out and no other line; the emotion line lists each
\* emotion label once, in the order of first occurrence, without scores
C24_RenderExactParts ==
  pc \in {"answered", "render_raised"} =>
    LET labels == Dedupe(EmoWords(GetList(js, "emotions"), lang), {})
        emotions == IF labels # <<>> THEN Join(labels, Str(<<", ">>)) ELSE EmoDefault(lang)
        parts == << Header(lang),
                    RenderParts(js, <<>>, <<>>, <<>>, lang)[2],
                    psych,
                    esoteric,
                    RenderParts(js, <<>>, <<>>, advice, lang)[5] >>
    IN /\ pc = "answered"
       /\ rendered = Join(NonEmpty(parts), Str(<<"\n">>))
       /\ \E i \in 1..Len(parts[2]) :
            SubSeq(parts[2], i, i + Len(emotions) - 1) = emotions

\* the trimmed texts that follow a line of marker key in r, each up to the
\* next marker line or the end of r
Following(r, key) ==
  LET lines == SplitLines(r, <<>>)
      stop(at) == LET later == {j \in (at + 1)..Len(lines) : MarkerOf(lines[j]) # ""}
                  IN IF later = {} THEN Len(lines) + 1
                     ELSE CHOOSE j \in later : \A k \in later : j <= k
  IN {Strip(Join(SubSeq(lines, at + 1, stop(at) - 1), Str(<<"\n">>))) :
        at \in MarkerLines(r, key)}

\* the section new is what the claim makes of old under the reply r
Replaced(r, key, old, new) ==
  IF MarkerLines(r, key) # {} THEN new \in Following(r, key) ELSE new = old

\* C25: a critique-regeneration reply replaces exactly the sections whose
\* marker line it holds, each with the text that follows its marker, empty or
\* not, and leaves the other sections as they were; an empty reply leaves all
\* three as they were
C25_MergeFrame ==
  [][pc = "merge" =>
       /\ Replaced(raw', "PSYCH", psych, psych')
       /\ Replaced(raw', "ESOTERIC", esoteric, esoteric')
       /\ Replaced(raw', "ADVICE", advice, advice')
       /\ raw' = <<>> => <<psych', esoteric', advice'>> = <<psych, esoteric, advice>>]_vars

\* a reply with PSYCH followed by nothing and ADVICE followed by text has
\* emptied psych, kept the old esoteric and replaced advice
C25_Witness ==
  /\ pc = "merge_done"
  /\ MarkerLines(raw, "PSYCH") # {} /\ psych = <<>>
  /\ MarkerLines(raw, "ESOTERIC") = {} /\ esoteric = Str(<<"old">>)
  /\ MarkerLines(raw, "ADVICE") # {} /\ advice = Str(<<"nice">>)

\* C26: when the structure offers fewer than two distinct non-empty detail
\* values, validate_ai_output returns a verdict other than ok for every
\* generated text, and a run that returns has made the validation critique
\* call as its last call
C26_FewDetailsCritique ==
  (js.kind = "obj" /\ Cardinality(Details(js)) < MinDetailRefs /\ msg # "none") =>
    /\ msg \notin {"ok", "raise"}
    /\ pc = "returned" => calls[Len(calls)] = "critique"

\* the delivered messages of the given kind to user u with local date d
Delivered(u, kind, d) ==
  {i \in 1..Len(sent) : /\ sent[i].to = u /\ sent[i].kind = kind
                        /\ sent[i].day = d /\ sent[i].delivered}

\* C27: for each user and each local calendar date notify_loop delivers at
\* most one morning and at most one evening message, whatever the number of
\* ticks, the date of a delivered message being stored; a send that fails
\* leaves the stored date as it was
C27_OncePerDate ==
  /\ \A u \in Users, kind \in {"morning", "evening"}, d \in 1..(MaxDays + 1) :
       Cardinality(Delivered(u, kind, d)) <= 1
  /\ \A i \in 1..Len(sent) :
       (~sent[i].delivered /\ (i < Len(sent) \/ loop.pc = "sleep")) =>
         (IF sent[i].kind = "morning" THEN users[sent[i].to].last_morning_sent
          ELSE users[sent[i].to].last_evening_sent) # sent[i].day
           \/ Delivered(sent[i].to, sent[i].kind, sent[i].day) # {}

\* the users table with the hours dh in place of the stored daily_hour values
WithDailyHours(dh) == [u \in Users |-> [users[u] EXCEPT !.daily_hour = dh[u]]]

\* C29: the daily_hour that /daily stores does not influence the messages
\* notify_loop sends: a tick that starts on a table which differs in the
\* daily_hour values only fetches the same rows and sends the same message
\* next, and every message is sent at local hour 8 (morning) or 20 (evening)
C29_DailyHourUnused ==
  /\ \A dh \in [Users -> DailyHours] : Wake(WithDailyHours(dh)) = Wake(users)
  /\ \A i \in 1..Len(sent) :
       sent[i].hour = IF sent[i].kind = "morning" THEN MorningHour ELSE EveningHour

\* a user whose daily_hour is 20 has got a morning message at local hour 8
C29_Witness ==
  \E i \in 1..Len(sent) :
    /\ sent[i].kind = "morning" /\ sent[i].hour = MorningHour /\ sent[i].delivered
    /\ users[sent[i].to].daily_hour = EveningHour

\* C28: a language chosen through settings:language:<code> is the user's
\* stored language after every later sequence of commands, callbacks and
\* free-text messages, until the next settings:language choice
C28_LanguageKept ==
  \A u \in Users :
    users[u].settings_language # "" => users[u].language = users[u].settings_language

\* the caller has made two calls or more
CalledTwice == chosen # <<>> /\ Len(chosen.returned) = 2

\* C30: for a fixed key and an option list with two distinct values or more,
\* two consecutive calls of choose_nonrepeat never return the same value,
\* and the recent list of the key never holds more than k entries.
C30_NoRepeatBoundedCache ==
  chosen # <<>> =>
    /\ CalledTwice => chosen.returned[1] # chosen.returned[2]
    /\ Len(CacheGet(chosen.key)) <= chosen.k

====
